---- MODULE Spec2Model ----
(***************************************************************************)
(* channeld/commit_tx.c: construction of the BOLT #3 commitment            *)
(* transaction.  commit_tx() is a pure function of its arguments; the      *)
(* model draws the arguments in Init and runs the body of commit_tx() as   *)
(* a sequence of steps, one action per numbered BOLT step of the source.   *)
(*                                                                         *)
(* Amounts are integers: millisatoshi for struct amount_msat, satoshi for  *)
(* struct amount_sat.  Pointers are integers: NULL is 0, the two dummy     *)
(* pointers are 0x01 and 0x02, and the htlc with id k lives at HtlcPtr(k). *)
(* All amounts of the model are far below 2^64, so the overflow branch of  *)
(* amount_msat_add (line 108) is never taken.                              *)
(***************************************************************************)
EXTENDS Integers, Sequences, FiniteSets, TLC

VARIABLES
    arg,            \* the arguments of commit_tx(), never modified
    pc,             \* position in the body of commit_tx()
    self_pay,       \* local copy of the self_pay argument (msat)
    other_pay,      \* local copy of the other_pay argument (msat)
    untrimmed,      \* size_t untrimmed
    base_fee,       \* struct amount_sat base_fee
    tx,             \* struct bitcoin_tx *tx
    htlcmap,        \* *htlcmap
    cltvs,          \* u32 *cltvs
    n,              \* size_t n
    direct_outputs  \* the caller's direct_outputs[NUM_SIDES] slots

vars == <<arg, pc, self_pay, other_pay, untrimmed, base_fee, tx, htlcmap,
          cltvs, n, direct_outputs>>

(***************************************************************************)
(* Bounds and input domains.                                               *)
(***************************************************************************)
MaxHtlcs == 2

Sides == {"LOCAL", "REMOTE"}
FundingSats == {7}
FeeRates == {0, 1, 3}
DustLimits == {1, 2}
PayMsats == {0, 1500, 5000}
HtlcMsats == {2500, 4000}
Expiries == {1, 2}
RHashes == {1, 2}
Keysets == {0, 1}
JunkCltvs == {0, 3}

(***************************************************************************)
(* Pointers.                                                               *)
(***************************************************************************)
NULL == 0
dummy_to_local == 1
dummy_to_remote == 2
HtlcPtr(id) == 16 * id
Uninit == -1

(***************************************************************************)
(* Amount arithmetic (common/amount.h).                                    *)
(***************************************************************************)
MSAT_PER_SAT == 1000

amount_msat_to_sat_round_down(msat) == msat \div MSAT_PER_SAT

amount_msat_greater_sat(msat, sat) == msat > sat * MSAT_PER_SAT

amount_msat_greater_eq_sat(msat, sat) == msat >= sat * MSAT_PER_SAT

amount_msat_add(a, b) == a + b

\* amount_tx_fee: fee = ceil(weight * feerate_per_kw / 1000)
amount_tx_fee(feerate_per_kw, weight) ==
    (weight * feerate_per_kw + 999) \div 1000

(***************************************************************************)
(* Trim filter and fee calculator (common/htlc_trim.c, common/htlc_tx.h,   *)
(* common/initial_commit_tx.h).  The weights are the BOLT #3 constants.    *)
(***************************************************************************)
CommitBaseWeight == 724
CommitHtlcWeight == 172
HtlcTimeoutWeight == 663
HtlcSuccessWeight == 703

htlc_timeout_fee(feerate_per_kw) == amount_tx_fee(feerate_per_kw, HtlcTimeoutWeight)

htlc_success_fee(feerate_per_kw) == amount_tx_fee(feerate_per_kw, HtlcSuccessWeight)

\* An htlc is trimmed when its value in satoshi, net of the cost of the
\* htlc transaction that would spend it, does not exceed the dust limit.  The
\* cost is that of the timeout transaction for an htlc offered by the
\* rendering side, of the success transaction for a received one.
htlc_is_trimmed(htlc_owner, htlc_amount, feerate_per_kw, dust_limit, side) ==
    LET htlc_fee == IF htlc_owner = side
                    THEN htlc_timeout_fee(feerate_per_kw)
                    ELSE htlc_success_fee(feerate_per_kw)
    IN  amount_msat_to_sat_round_down(htlc_amount) - htlc_fee <= dust_limit

commit_tx_base_fee(feerate_per_kw, num_untrimmed_htlcs) ==
    amount_tx_fee(feerate_per_kw,
                  CommitBaseWeight + CommitHtlcWeight * num_untrimmed_htlcs)

\* try_subtract_fee: the opener pays the fee, with a floor of 0.  The result
\* is the pair <<self, other>>.
try_subtract_fee(opener, side, fee, self, other) ==
    LET sub(a) == IF a >= fee * MSAT_PER_SAT THEN a - fee * MSAT_PER_SAT ELSE 0
    IN  IF opener = side THEN <<sub(self), other>> ELSE <<self, sub(other)>>

(***************************************************************************)
(* commit_tx.c, lines 15-35.                                               *)
(***************************************************************************)
trim(htlc, feerate_per_kw, dust_limit, side) ==
    htlc_is_trimmed(htlc.owner, htlc.amount, feerate_per_kw, dust_limit, side)

RECURSIVE NumUntrimmedFrom(_, _, _, _, _)
NumUntrimmedFrom(htlcs, i, feerate_per_kw, dust_limit, side) ==
    IF i > Len(htlcs) THEN 0
    ELSE (IF trim(htlcs[i], feerate_per_kw, dust_limit, side) THEN 0 ELSE 1)
         + NumUntrimmedFrom(htlcs, i + 1, feerate_per_kw, dust_limit, side)

commit_tx_num_untrimmed(htlcs, feerate_per_kw, dust_limit, side) ==
    NumUntrimmedFrom(htlcs, 1, feerate_per_kw, dust_limit, side)

(***************************************************************************)
(* Scripts (bitcoin/script.c).  A witness script is identified by what it  *)
(* is derived from; the keyset is part of every derivation.  A locking     *)
(* script is the P2WSH of a witness script or the P2WPKH of a key.         *)
(***************************************************************************)
NoWscript == <<"none", 0, 0, 0>>

htlc_offered_wscript(rhash, keyset) == <<"offered", rhash, 0, keyset>>

htlc_received_wscript(rhash, expiry, keyset) == <<"received", rhash, expiry, keyset>>

to_self_wscript(keyset) == <<"to_self", 0, 0, keyset>>

scriptpubkey_p2wsh(wscript) == [type |-> "p2wsh", of |-> wscript]

scriptpubkey_p2wpkh(keyset) == [type |-> "p2wpkh", of |-> <<"other_payment_key", 0, 0, keyset>>]

\* The bytes of a script, as far as their lexicographic order goes: a P2WPKH
\* (00 14 ...) is below every P2WSH (00 20 ...); the order of two P2WSH is that
\* of two hashes, which the keyset turns either way.
WscriptCode(w) ==
    (CASE w[1] = "offered" -> 100
       [] w[1] = "received" -> 200
       [] w[1] = "to_self" -> 300
       [] OTHER -> 0) + 10 * w[2] + w[3]

ScriptBytes(script) ==
    IF script.type = "p2wpkh" THEN 0
    ELSE IF script.of[4] = 0 THEN 1 + WscriptCode(script.of)
         ELSE 1000 - WscriptCode(script.of)

(***************************************************************************)
(* permute_outputs (common/permute_tx.c): BIP 69 order with the CLTV       *)
(* tie-break, applied to the outputs, the cltvs and the map alike.         *)
(***************************************************************************)
output_better(a, cltv_a, b, cltv_b) ==
    IF a.amount # b.amount THEN a.amount < b.amount
    ELSE IF ScriptBytes(a.script) # ScriptBytes(b.script)
         THEN ScriptBytes(a.script) < ScriptBytes(b.script)
         ELSE cltv_a < cltv_b

\* Position at which index j goes into the ordered index sequence s: before
\* the first element it is better than.
RECURSIVE InsertPos(_, _, _, _, _)
InsertPos(outputs, cl, s, j, k) ==
    IF k > Len(s) THEN k
    ELSE IF output_better(outputs[j], cl[j], outputs[s[k]], cl[s[k]]) THEN k
         ELSE InsertPos(outputs, cl, s, j, k + 1)

RECURSIVE SortedIndices(_, _, _)
SortedIndices(outputs, cl, m) ==
    IF m = 0 THEN <<>>
    ELSE LET s == SortedIndices(outputs, cl, m - 1)
             k == InsertPos(outputs, cl, s, m, 1)
         IN  SubSeq(s, 1, k - 1) \o <<m>> \o SubSeq(s, k, Len(s))

\* The result: the outputs, the cltvs and the map, each in the new order.
\* Only the first Len(outputs) entries of cl and map are outputs' entries.
permute_outputs(outputs, cl, map) ==
    LET p == SortedIndices(outputs, cl, Len(outputs))
    IN  [outputs |-> [i \in 1..Len(outputs) |-> outputs[p[i]]],
         cltvs   |-> [i \in 1..Len(cl) |-> IF i <= Len(outputs) THEN cl[p[i]] ELSE cl[i]],
         map     |-> [i \in 1..Len(map) |-> IF i <= Len(outputs) THEN map[p[i]] ELSE map[i]]]

(***************************************************************************)
(* Machine words.  A u64 is three limbs <<bits 48-63, bits 24-47, bits     *)
(* 0-23>>; a u32 is a u64 below 2^32.                                      *)
(***************************************************************************)
TopLimb == 65536
Byte == 256

RECURSIVE BitAnd(_, _)
BitAnd(x, y) ==
    IF x = 0 \/ y = 0 THEN 0
    ELSE (x % 2) * (y % 2) + 2 * BitAnd(x \div 2, y \div 2)

RECURSIVE BitOr(_, _)
BitOr(x, y) ==
    IF x = 0 THEN y
    ELSE IF y = 0 THEN x
    ELSE (IF x % 2 = 1 \/ y % 2 = 1 THEN 1 ELSE 0) + 2 * BitOr(x \div 2, y \div 2)

And64(a, b) == <<BitAnd(a[1], b[1]), BitAnd(a[2], b[2]), BitAnd(a[3], b[3])>>

Or64(a, b) == <<BitOr(a[1], b[1]), BitOr(a[2], b[2]), BitOr(a[3], b[3])>>

\* a >> 24 and a << 24 on a u64
Shr24(a) == <<0, a[1], a[2]>>

Shl24(a) == <<a[2] % TopLimb, a[3], 0>>

\* conversion of a u64 to u32
ToU32(a) == <<0, a[2] % Byte, a[3]>>

Hex20000000 == <<0, 32, 0>>
Hex80000000 == <<0, 128, 0>>
HexFFFFFF == <<0, 0, 16777215>>
Zero64 == <<0, 0, 0>>

(***************************************************************************)
(* The body of commit_tx().  A frame holds the locals; each step maps the  *)
(* arguments a and a frame f to the next frame.                            *)
(***************************************************************************)
Frame ==
    [pc |-> pc, self_pay |-> self_pay, other_pay |-> other_pay,
     untrimmed |-> untrimmed, base_fee |-> base_fee, tx |-> tx,
     htlcmap |-> htlcmap, cltvs |-> cltvs, n |-> n,
     direct_outputs |-> direct_outputs]

NoTx ==
    [version |-> 0, locktime |-> Zero64, inputs |-> <<>>, outputs |-> <<>>,
     outputs_allocation_len |-> 0, finalized |-> FALSE]

\* The locals before the first statement, for a call with arguments a.
EntryFrame(a) ==
    [pc |-> "entry", self_pay |-> a.self_pay, other_pay |-> a.other_pay,
     untrimmed |-> 0, base_fee |-> 0, tx |-> NoTx,
     htlcmap |-> <<>>, cltvs |-> <<>>, n |-> 0,
     direct_outputs |-> [s \in Sides |-> Uninit]]

\* bitcoin_tx_add_output; output_witscripts[] is kept with the output.
bitcoin_tx_add_output(t, script, amount, wscript) ==
    [t EXCEPT !.outputs = Append(@, [amount |-> amount, script |-> script,
                                      wscript |-> wscript])]

\* Variant: the entry check looks at self_pay alone.
EntryStep_SelfOnly(a, f) ==
    [f EXCEPT !.pc = IF amount_msat_greater_sat(a.self_pay, a.funding)
                     THEN "abort_total_pay" ELSE "fee"]

\* lines 108-110
EntryStep(a, f) ==
    LET total_pay == amount_msat_add(a.self_pay, a.other_pay)
    IN  [f EXCEPT !.pc = IF amount_msat_greater_sat(total_pay, a.funding)
                         THEN "abort_total_pay" ELSE "fee"]

\* Variant: the base fee is computed and never subtracted.
FeeStep_NoSubtract(a, f) ==
    LET u   == commit_tx_num_untrimmed(a.htlcs, a.feerate_per_kw, a.dust_limit, a.side)
        fee == commit_tx_base_fee(a.feerate_per_kw, u)
    IN  [f EXCEPT !.untrimmed = u, !.base_fee = fee, !.pc = "alloc"]

\* lines 160-179
FeeStep(a, f) ==
    LET u   == commit_tx_num_untrimmed(a.htlcs, a.feerate_per_kw, a.dust_limit, a.side)
        fee == commit_tx_base_fee(a.feerate_per_kw, u)
        pay == try_subtract_fee(a.opener, a.side, fee, f.self_pay, f.other_pay)
    IN  [f EXCEPT !.untrimmed = u, !.base_fee = fee,
                  !.self_pay = pay[1], !.other_pay = pay[2], !.pc = "alloc"]

\* Variant: room for one balance output only.
AllocStep_OneSpare(a, f) ==
    LET cap == f.untrimmed + 1
    IN  [f EXCEPT !.tx = [NoTx EXCEPT !.version = 2, !.outputs_allocation_len = cap],
                  !.htlcmap = [i \in 1..cap |-> Uninit],
                  !.cltvs = [i \in 1..cap |-> a.junk],
                  !.n = 0, !.pc = "offered"]

\* lines 200-212: the map is not initialised, nor are the cltvs
AllocStep(a, f) ==
    LET cap == f.untrimmed + 2
    IN  [f EXCEPT !.tx = [NoTx EXCEPT !.version = 2, !.outputs_allocation_len = cap],
                  !.htlcmap = [i \in 1..cap |-> Uninit],
                  !.cltvs = [i \in 1..cap |-> a.junk],
                  !.n = 0, !.pc = "offered"]

\* lines 37-56 and 223-229: one offered htlc output
AddOffered(a, f, htlc) ==
    LET wscript == htlc_offered_wscript(htlc.rhash, a.keyset)
    IN  [f EXCEPT !.tx = bitcoin_tx_add_output(@, scriptpubkey_p2wsh(wscript),
                             amount_msat_to_sat_round_down(htlc.amount), wscript),
                  !.htlcmap[f.n + 1] = HtlcPtr(htlc.id),
                  !.cltvs[f.n + 1] = htlc.expiry,
                  !.n = f.n + 1]

\* lines 58-82 and 242-248: one received htlc output
AddReceived(a, f, htlc) ==
    LET wscript == htlc_received_wscript(htlc.rhash, htlc.expiry, a.keyset)
    IN  [f EXCEPT !.tx = bitcoin_tx_add_output(@, scriptpubkey_p2wsh(wscript),
                             amount_msat_to_sat_round_down(htlc.amount), wscript),
                  !.htlcmap[f.n + 1] = HtlcPtr(htlc.id),
                  !.cltvs[f.n + 1] = htlc.expiry,
                  !.n = f.n + 1]

\* lines 218-230, from iteration i on
RECURSIVE OfferedLoop(_, _, _)
OfferedLoop(a, f, i) ==
    IF i > Len(a.htlcs) THEN f
    ELSE IF a.htlcs[i].owner # a.side THEN OfferedLoop(a, f, i + 1)
    ELSE IF trim(a.htlcs[i], a.feerate_per_kw, a.dust_limit, a.side)
         THEN OfferedLoop(a, f, i + 1)
    ELSE OfferedLoop(a, AddOffered(a, f, a.htlcs[i]), i + 1)

OfferedStep(a, f) == [OfferedLoop(a, f, 1) EXCEPT !.pc = "received"]

\* lines 237-249, from iteration i on
RECURSIVE ReceivedLoop(_, _, _)
ReceivedLoop(a, f, i) ==
    IF i > Len(a.htlcs) THEN f
    ELSE IF a.htlcs[i].owner = a.side THEN ReceivedLoop(a, f, i + 1)
    ELSE IF trim(a.htlcs[i], a.feerate_per_kw, a.dust_limit, a.side)
         THEN ReceivedLoop(a, f, i + 1)
    ELSE ReceivedLoop(a, AddReceived(a, f, a.htlcs[i]), i + 1)

\* Variant: the received loop does not skip the htlcs the side offered.
RECURSIVE ReceivedLoop_AnyOwner(_, _, _)
ReceivedLoop_AnyOwner(a, f, i) ==
    IF i > Len(a.htlcs) THEN f
    ELSE IF trim(a.htlcs[i], a.feerate_per_kw, a.dust_limit, a.side)
         THEN ReceivedLoop_AnyOwner(a, f, i + 1)
    ELSE ReceivedLoop_AnyOwner(a, AddReceived(a, f, a.htlcs[i]), i + 1)

ReceivedStep_AnyOwner(a, f) == [ReceivedLoop_AnyOwner(a, f, 1) EXCEPT !.pc = "to_local"]

ReceivedStep(a, f) == [ReceivedLoop(a, f, 1) EXCEPT !.pc = "to_local"]

\* Variant: to_local needs more than the dust limit.
ToLocalStep_Greater(a, f) ==
    IF amount_msat_greater_sat(f.self_pay, a.dust_limit)
    THEN LET wscript == to_self_wscript(a.keyset)
         IN  [f EXCEPT !.tx = bitcoin_tx_add_output(@, scriptpubkey_p2wsh(wscript),
                                  amount_msat_to_sat_round_down(f.self_pay), wscript),
                       !.htlcmap[f.n + 1] = IF a.want_direct THEN dummy_to_local ELSE NULL,
                       !.n = f.n + 1, !.pc = "to_remote"]
    ELSE [f EXCEPT !.pc = "to_remote"]

\* Variant: the to_local entry is tagged whether or not the caller asked for
\* the direct outputs.
ToLocalStep_AlwaysTag(a, f) ==
    IF amount_msat_greater_eq_sat(f.self_pay, a.dust_limit)
    THEN LET wscript == to_self_wscript(a.keyset)
         IN  [f EXCEPT !.tx = bitcoin_tx_add_output(@, scriptpubkey_p2wsh(wscript),
                                  amount_msat_to_sat_round_down(f.self_pay), wscript),
                       !.htlcmap[f.n + 1] = dummy_to_local,
                       !.n = f.n + 1, !.pc = "to_remote"]
    ELSE [f EXCEPT !.pc = "to_remote"]

\* lines 257-276
ToLocalStep(a, f) ==
    IF amount_msat_greater_eq_sat(f.self_pay, a.dust_limit)
    THEN LET wscript == to_self_wscript(a.keyset)
         IN  [f EXCEPT !.tx = bitcoin_tx_add_output(@, scriptpubkey_p2wsh(wscript),
                                  amount_msat_to_sat_round_down(f.self_pay), wscript),
                       !.htlcmap[f.n + 1] = IF a.want_direct THEN dummy_to_local ELSE NULL,
                       !.n = f.n + 1, !.pc = "to_remote"]
    ELSE [f EXCEPT !.pc = "to_remote"]

\* Variant: to_remote needs more than the dust limit.
ToRemoteStep_Greater(a, f) ==
    IF amount_msat_greater_sat(f.other_pay, a.dust_limit)
    THEN [f EXCEPT !.tx = bitcoin_tx_add_output(@, scriptpubkey_p2wpkh(a.keyset),
                              amount_msat_to_sat_round_down(f.other_pay), NoWscript),
                   !.htlcmap[f.n + 1] = IF a.want_direct THEN dummy_to_remote ELSE NULL,
                   !.n = f.n + 1, !.pc = "check"]
    ELSE [f EXCEPT !.pc = "check"]

\* lines 284-306; pos is the index bitcoin_tx_add_output returns
ToRemoteStep(a, f) ==
    IF amount_msat_greater_eq_sat(f.other_pay, a.dust_limit)
    THEN LET pos == Len(f.tx.outputs)
         IN  IF pos # f.n THEN [f EXCEPT !.pc = "abort_pos"]
             ELSE [f EXCEPT !.tx = bitcoin_tx_add_output(@, scriptpubkey_p2wpkh(a.keyset),
                                       amount_msat_to_sat_round_down(f.other_pay), NoWscript),
                            !.htlcmap[f.n + 1] = IF a.want_direct THEN dummy_to_remote ELSE NULL,
                            !.n = f.n + 1, !.pc = "check"]
    ELSE [f EXCEPT !.pc = "check"]

\* lines 314-317
CheckStep(a, f) ==
    IF ~(f.n > 0) THEN [f EXCEPT !.pc = "abort_no_output"]
    ELSE IF ~(f.n <= f.tx.outputs_allocation_len) THEN [f EXCEPT !.pc = "abort_capacity"]
    ELSE [f EXCEPT !.htlcmap = SubSeq(@, 1, f.n), !.pc = "permute"]

\* Variant: the outputs are sorted without the map.
PermuteStep_OutputsOnly(a, f) ==
    LET r == permute_outputs(f.tx.outputs, f.cltvs, f.htlcmap)
    IN  [f EXCEPT !.tx.outputs = r.outputs, !.cltvs = r.cltvs,
                  !.pc = IF f.tx.version = 2 THEN "assemble" ELSE "abort_version"]

\* Variant: the outputs stay in the order they were added in.
PermuteStep_Skipped(a, f) ==
    [f EXCEPT !.pc = IF f.tx.version = 2 THEN "assemble" ELSE "abort_version"]

\* lines 324-332
PermuteStep(a, f) ==
    LET r == permute_outputs(f.tx.outputs, f.cltvs, f.htlcmap)
    IN  [f EXCEPT !.tx.outputs = r.outputs, !.cltvs = r.cltvs, !.htlcmap = r.map,
                  !.pc = IF f.tx.version = 2 THEN "assemble" ELSE "abort_version"]

\* line 338-339
Locktime(number) == ToU32(Or64(Hex20000000, And64(number, HexFFFFFF)))

\* Variant: the sequence takes the low 24 bits, like the locktime.
Sequence_NoShift(number) == ToU32(Or64(Hex80000000, And64(number, HexFFFFFF)))

\* line 351
Sequence(number) == ToU32(Or64(Hex80000000, And64(Shr24(number), HexFFFFFF)))

\* lines 338-352
AssembleStep(a, f) ==
    [f EXCEPT !.tx.locktime = Locktime(a.obscured_commitment_number),
              !.tx.inputs = Append(@, [txid |-> a.funding_txid,
                                       index |-> a.funding_txout,
                                       sequence |-> Sequence(a.obscured_commitment_number),
                                       amount |-> a.funding]),
              !.pc = "locate"]

\* lines 357-365, from output i on (1-based); d is direct_outputs, m the map
RECURSIVE LocateLoop(_, _, _, _)
LocateLoop(m, d, i, num_outputs) ==
    IF i > num_outputs THEN [map |-> m, direct |-> d]
    ELSE IF m[i] = dummy_to_local
         THEN LocateLoop([m EXCEPT ![i] = NULL], [d EXCEPT !["LOCAL"] = i], i + 1, num_outputs)
    ELSE IF m[i] = dummy_to_remote
         THEN LocateLoop([m EXCEPT ![i] = NULL], [d EXCEPT !["REMOTE"] = i], i + 1, num_outputs)
    ELSE LocateLoop(m, d, i + 1, num_outputs)

\* lines 355-366; a slot holds the (1-based) index of the output it points to
LocateStep(a, f) ==
    IF a.want_direct
    THEN LET r == LocateLoop(f.htlcmap, [s \in Sides |-> NULL], 1, Len(f.tx.outputs))
         IN  [f EXCEPT !.htlcmap = r.map, !.direct_outputs = r.direct, !.pc = "finalize"]
    ELSE [f EXCEPT !.pc = "finalize"]

\* bitcoin_tx_check: a well-formed transaction has outputs and its one input
bitcoin_tx_check(t) == Len(t.outputs) > 0 /\ Len(t.inputs) = 1 /\ t.finalized

\* lines 390-393
FinalizeStep(a, f) ==
    LET t == [f.tx EXCEPT !.finalized = TRUE]
    IN  [f EXCEPT !.tx = t,
                  !.pc = IF bitcoin_tx_check(t) THEN "done" ELSE "abort_tx_check"]

(***************************************************************************)
(* The arguments of a call.                                                *)
(***************************************************************************)
HtlcChoices(rhashes, expiries) ==
    [amount : HtlcMsats, rhash : rhashes, expiry : expiries, owner : Sides]

\* Lists of k htlcs; the htlc at position i of the caller's array has id i.
HtlcListsOfLen(k, rhashes, expiries) ==
    {[i \in 1..k |-> [id |-> i, amount |-> c[i].amount, rhash |-> c[i].rhash,
                      expiry |-> c[i].expiry, owner |-> c[i].owner]] :
        c \in [1..k -> HtlcChoices(rhashes, expiries)]}

HtlcLists(rhashes, expiries) ==
    UNION {HtlcListsOfLen(k, rhashes, expiries) : k \in 0..MaxHtlcs}

\* Obscured commitment numbers: limb values at the edges of 24 bits, below and
\* above 2^48.
LimbValues == {0, 1, 8388608, 11259375, 16777215}
ObscuredNumbers == {<<h, m, l>> : h \in {0, 1}, m \in LimbValues, l \in LimbValues}

MkArg(funding, opener, side, keyset, feerate, dust, self, other, htlcs, want, number, junk) ==
    [funding_txid |-> 1, funding_txout |-> 0, funding |-> funding,
     opener |-> opener, keyset |-> keyset, feerate_per_kw |-> feerate,
     dust_limit |-> dust, self_pay |-> self, other_pay |-> other,
     htlcs |-> htlcs, want_direct |-> want,
     obscured_commitment_number |-> number, side |-> side, junk |-> junk]

\* Calls that vary the channel state, with one commitment number, payment
\* hash and expiry.
BuildArgs ==
    {MkArg(fu, op, sd, 0, fr, du, sp, ot, hs, wd, <<0, 11259375, 1>>, 0) :
        fu \in FundingSats, op \in Sides, sd \in Sides,
        fr \in FeeRates, du \in DustLimits, sp \in PayMsats, ot \in PayMsats,
        hs \in HtlcLists({1}, {1}), wd \in BOOLEAN}

\* Calls that vary what decides the order of the outputs: the payment hashes,
\* the keyset, and what the cltvs array holds where it was never assigned;
\* the balances are such that to_local and to_remote tie with htlc outputs
\* on the amount.
OrderArgs ==
    {MkArg(9, "LOCAL", "LOCAL", ks, 0, 1, 4000, 2500, hs, TRUE, <<0, 1, 11259375>>, jk) :
        ks \in Keysets, hs \in HtlcLists(RHashes, Expiries), jk \in JunkCltvs}

\* Calls that vary the commitment number, with one channel state.
NumberArgs ==
    {MkArg(9, "LOCAL", "LOCAL", 0, 1, 1, 5000, 2000, <<>>, TRUE, nb, 0) :
        nb \in ObscuredNumbers}

Set(f) ==
    /\ pc' = f.pc
    /\ self_pay' = f.self_pay
    /\ other_pay' = f.other_pay
    /\ untrimmed' = f.untrimmed
    /\ base_fee' = f.base_fee
    /\ tx' = f.tx
    /\ htlcmap' = f.htlcmap
    /\ cltvs' = f.cltvs
    /\ n' = f.n
    /\ direct_outputs' = f.direct_outputs
    /\ UNCHANGED arg

Init ==
    /\ arg \in BuildArgs \cup OrderArgs \cup NumberArgs
    /\ pc = "entry"
    /\ self_pay = arg.self_pay
    /\ other_pay = arg.other_pay
    /\ untrimmed = 0
    /\ base_fee = 0
    /\ tx = NoTx
    /\ htlcmap = <<>>
    /\ cltvs = <<>>
    /\ n = 0
    /\ direct_outputs = [s \in Sides |-> Uninit]

Entry == pc = "entry" /\ Set(EntryStep(arg, Frame))

Fee == pc = "fee" /\ Set(FeeStep(arg, Frame))

Alloc == pc = "alloc" /\ Set(AllocStep(arg, Frame))

Offered == pc = "offered" /\ Set(OfferedStep(arg, Frame))

Received == pc = "received" /\ Set(ReceivedStep(arg, Frame))

ToLocal == pc = "to_local" /\ Set(ToLocalStep(arg, Frame))

ToRemote == pc = "to_remote" /\ Set(ToRemoteStep(arg, Frame))

Check == pc = "check" /\ Set(CheckStep(arg, Frame))

Permute == pc = "permute" /\ Set(PermuteStep(arg, Frame))

Assemble == pc = "assemble" /\ Set(AssembleStep(arg, Frame))

Locate == pc = "locate" /\ Set(LocateStep(arg, Frame))

Finalize == pc = "finalize" /\ Set(FinalizeStep(arg, Frame))

Next ==
    \/ Entry
    \/ Fee
    \/ Alloc
    \/ Offered
    \/ Received
    \/ ToLocal
    \/ ToRemote
    \/ Check
    \/ Permute
    \/ Assemble
    \/ Locate
    \/ Finalize

Spec == Init /\ [][Next]_vars

\* The whole call as a function: the frame commit_tx() ends in.
StepAt(a, f) ==
    CASE f.pc = "entry" -> EntryStep(a, f)
      [] f.pc = "fee" -> FeeStep(a, f)
      [] f.pc = "alloc" -> AllocStep(a, f)
      [] f.pc = "offered" -> OfferedStep(a, f)
      [] f.pc = "received" -> ReceivedStep(a, f)
      [] f.pc = "to_local" -> ToLocalStep(a, f)
      [] f.pc = "to_remote" -> ToRemoteStep(a, f)
      [] f.pc = "check" -> CheckStep(a, f)
      [] f.pc = "permute" -> PermuteStep(a, f)
      [] f.pc = "assemble" -> AssembleStep(a, f)
      [] f.pc = "locate" -> LocateStep(a, f)
      [] f.pc = "finalize" -> FinalizeStep(a, f)
      [] OTHER -> f

Aborts == {"abort_total_pay", "abort_pos", "abort_no_output", "abort_capacity",
           "abort_version", "abort_tx_check"}

RECURSIVE RunFrom(_, _)
RunFrom(a, f) == IF f.pc = "done" \/ f.pc \in Aborts THEN f ELSE RunFrom(a, StepAt(a, f))

commit_tx(a) == RunFrom(a, EntryFrame(a))

(***************************************************************************)
(* Vocabulary of the properties.                                           *)
(***************************************************************************)
\* the fee allocator (line 179) has run
PastFee == pc \notin {"entry", "fee", "abort_total_pay"}

EntryCheckPasses == arg.self_pay + arg.other_pay <= arg.funding * MSAT_PER_SAT

ToLocalScript == scriptpubkey_p2wsh(to_self_wscript(arg.keyset))

ToRemoteScript == scriptpubkey_p2wpkh(arg.keyset)

OutputsWith(script) == {i \in 1..Len(tx.outputs) : tx.outputs[i].script = script}

HasToLocal == OutputsWith(ToLocalScript) # {}

HasToRemote == OutputsWith(ToRemoteScript) # {}

Untrimmed(h) == ~trim(h, arg.feerate_per_kw, arg.dust_limit, arg.side)

HtlcScript(h) ==
    scriptpubkey_p2wsh(IF h.owner = arg.side
                       THEN htlc_offered_wscript(h.rhash, arg.keyset)
                       ELSE htlc_received_wscript(h.rhash, h.expiry, arg.keyset))

RECURSIVE SumAmounts(_, _)
SumAmounts(outs, i) == IF i > Len(outs) THEN 0 ELSE outs[i].amount + SumAmounts(outs, i + 1)

\* base fee of the untrimmed htlc count, from the arguments
ArgBaseFee ==
    commit_tx_base_fee(arg.feerate_per_kw,
        commit_tx_num_untrimmed(arg.htlcs, arg.feerate_per_kw, arg.dust_limit, arg.side))

FunderPayIn == IF arg.opener = arg.side THEN arg.self_pay ELSE arg.other_pay

(***************************************************************************)
(* C1 - minimum viable output.                                             *)
(***************************************************************************)
C1_Case ==
    /\ Len(arg.htlcs) = 0
    /\ amount_msat_greater_eq_sat(arg.self_pay, arg.dust_limit)
    /\ ~amount_msat_greater_eq_sat(arg.other_pay, arg.dust_limit)
    /\ EntryCheckPasses

C1_OneToLocal ==
    /\ Len(tx.outputs) = 1
    /\ tx.outputs[1].script = ToLocalScript

\* C1 as stated: with no htlcs, self_pay >= dust_limit and other_pay <
\* dust_limit on input, for any opener, side and fee rate, the build never
\* fails assert(n > 0) and returns a transaction whose one output is to_local.
C1_AsStated ==
    C1_Case => /\ pc # "abort_no_output"
               /\ (pc = "done" => C1_OneToLocal)

\* C1 amended: with no htlcs, self_pay >= dust_limit and other_pay < dust_limit
\* on input, the build fails assert(n > 0) only if the fee took self_pay below
\* dust_limit; if self_pay is still >= dust_limit after the fee allocator, no
\* assertion fails and the returned transaction has exactly one output, the
\* to_local output, worth self_pay after the fee, in whole satoshi.
C1_MinimumViableOutput ==
    C1_Case =>
        /\ (PastFee /\ amount_msat_greater_eq_sat(self_pay, arg.dust_limit)
               => pc \notin Aborts)
        /\ (pc \in Aborts
               => pc = "abort_no_output"
                  /\ ~amount_msat_greater_eq_sat(self_pay, arg.dust_limit))
        /\ (pc = "done"
               => /\ C1_OneToLocal
                  /\ tx.outputs[1].amount * MSAT_PER_SAT <= self_pay
                  /\ self_pay < (tx.outputs[1].amount + 1) * MSAT_PER_SAT)

\* the opener is the rendering side and pays a fee, and to_local survives
C1_Witness ==
    /\ C1_Case
    /\ pc = "done"
    /\ arg.opener = arg.side
    /\ base_fee > 0
    /\ self_pay < arg.self_pay
    /\ C1_OneToLocal

(***************************************************************************)
(* C2 - fee conservation.                                                  *)
(***************************************************************************)
BothExceedFee ==
    /\ amount_msat_greater_sat(arg.self_pay, ArgBaseFee)
    /\ amount_msat_greater_sat(arg.other_pay, ArgBaseFee)

RECURSIVE SumHtlcMsat(_, _)
SumHtlcMsat(htlcs, i) ==
    IF i > Len(htlcs) THEN 0 ELSE htlcs[i].amount + SumHtlcMsat(htlcs, i + 1)

\* the channel's funds are all accounted for by the balances and the htlcs
FundsAccounted ==
    arg.self_pay + arg.other_pay + SumHtlcMsat(arg.htlcs, 1) = arg.funding * MSAT_PER_SAT

\* Of an amount that gets an output when `kept`, what no output carries:
\* all of it when there is no output, else its fraction of a satoshi.
DroppedOf(msat, kept) == IF kept THEN msat % MSAT_PER_SAT ELSE msat

RECURSIVE DroppedHtlcMsat(_, _)
DroppedHtlcMsat(htlcs, i) ==
    IF i > Len(htlcs) THEN 0
    ELSE DroppedOf(htlcs[i].amount, Untrimmed(htlcs[i])) + DroppedHtlcMsat(htlcs, i + 1)

DroppedMsat ==
    DroppedHtlcMsat(arg.htlcs, 1)
    + DroppedOf(self_pay, amount_msat_greater_eq_sat(self_pay, arg.dust_limit))
    + DroppedOf(other_pay, amount_msat_greater_eq_sat(other_pay, arg.dust_limit))

C3_AsStated ==
    PastFee => self_pay + other_pay + base_fee * MSAT_PER_SAT
                   <= arg.funding * MSAT_PER_SAT

\* C3 amended: once the fee allocator has run, self_pay + other_pay does not
\* exceed the funding amount, and self_pay + other_pay + base_fee does not
\* exceed it whenever the funder's balance was at least the base fee; when the
\* funder's balance is floored at zero the total with the fee may exceed it.
C3_TotalPayout ==
    PastFee =>
        /\ self_pay + other_pay <= arg.funding * MSAT_PER_SAT
        /\ (amount_msat_greater_eq_sat(FunderPayIn, base_fee)
               => self_pay + other_pay + base_fee * MSAT_PER_SAT
                      <= arg.funding * MSAT_PER_SAT)

\* the funder pays a fee in full
C3_Witness ==
    /\ PastFee
    /\ base_fee > 0
    /\ amount_msat_greater_eq_sat(FunderPayIn, base_fee)
    /\ self_pay + other_pay + base_fee * MSAT_PER_SAT = arg.self_pay + arg.other_pay

(***************************************************************************)
(* C4 - which builds complete.                                             *)
(***************************************************************************)
\* C4 as stated: unless self_pay + other_pay exceeds the funding amount, the
\* build completes: no assertion fails, assert(n > 0) included.
C4_AsStated ==
    EntryCheckPasses => pc \notin Aborts

\* C4 amended: apart from amount overflow, self_pay + other_pay exceeding the
\* funding amount, and the build that leaves nothing to pay out (no untrimmed
\* htlc, and both balances below the dust limit after the fee), every build
\* runs to completion and returns a transaction; assert(n <= capacity) never
\* fails.
C4_Completes ==
    /\ pc \notin {"abort_capacity", "abort_pos", "abort_version", "abort_tx_check"}
    /\ (pc = "abort_total_pay" => ~EntryCheckPasses)
    /\ (pc = "abort_no_output"
           => /\ untrimmed = 0
              /\ ~amount_msat_greater_eq_sat(self_pay, arg.dust_limit)
              /\ ~amount_msat_greater_eq_sat(other_pay, arg.dust_limit))
    /\ (pc = "entry" => commit_tx(arg).pc \in {"done", "abort_total_pay", "abort_no_output"})
    /\ (pc = "done" => Len(tx.outputs) > 0 /\ Len(tx.outputs) <= tx.outputs_allocation_len)

\* htlcs, all of them trimmed, a one-sided balance and both slots allocated
\* for nothing: the build still returns
C4_Witness ==
    /\ pc = "done"
    /\ Len(arg.htlcs) > 0
    /\ untrimmed = 0
    /\ Len(tx.outputs) = 1

(***************************************************************************)
(* C5 - the fee is computed from the number of htlc outputs emitted.       *)
(***************************************************************************)
Allocated == pc \in {"offered", "received", "to_local", "to_remote", "check",
                     "permute", "assemble", "locate", "finalize", "done",
                     "abort_no_output", "abort_capacity", "abort_pos"}

HtlcPtrs == {HtlcPtr(arg.htlcs[i].id) : i \in 1..Len(arg.htlcs)}

\* C5: when the offered and the received loop have run, the number of htlc
\* outputs emitted is commit_tx_num_untrimmed(htlcs, feerate, dust_limit,
\* side), the count the base fee was computed from; and the output count n
\* never exceeds the allocated capacity untrimmed + 2, nor the htlc count + 2.
C5_FeeOutputAgreement ==
    /\ (pc = "to_local"
           => /\ n = commit_tx_num_untrimmed(arg.htlcs, arg.feerate_per_kw,
                                             arg.dust_limit, arg.side)
              /\ n = untrimmed
              /\ base_fee = commit_tx_base_fee(arg.feerate_per_kw, n)
              /\ Len(tx.outputs) = n
              /\ \A i \in 1..n : htlcmap[i] \in HtlcPtrs)
    /\ (Allocated
           => /\ tx.outputs_allocation_len = untrimmed + 2
              /\ n <= tx.outputs_allocation_len
              /\ n <= Len(arg.htlcs) + 2
              /\ Len(tx.outputs) = n)

\* an htlc offered and an htlc received, one with an output and one trimmed
C5_Witness ==
    /\ pc = "to_local"
    /\ n >= 1
    /\ n < Len(arg.htlcs)
    /\ \E i, j \in 1..Len(arg.htlcs) :
          /\ arg.htlcs[i].owner = arg.side
          /\ arg.htlcs[j].owner # arg.side

(***************************************************************************)
(* C6 - the map is co-indexed with the outputs.                            *)
(***************************************************************************)
HtlcAt(ptr) == CHOOSE h \in {arg.htlcs[i] : i \in 1..Len(arg.htlcs)} : HtlcPtr(h.id) = ptr

\* C6: when commit_tx returns, the map is as long as the transaction has
\* outputs; an entry that refers to an htlc sits at the index of that htlc's
\* output (its amount in whole satoshi, its script), the htlc is untrimmed,
\* and every untrimmed htlc is referred to by exactly one entry.
C6_CoIndexed ==
    pc = "done" =>
        /\ Len(htlcmap) = Len(tx.outputs)
        /\ \A i \in 1..Len(htlcmap) :
              htlcmap[i] \in HtlcPtrs =>
                  LET h == HtlcAt(htlcmap[i])
                  IN  /\ tx.outputs[i].amount = h.amount \div MSAT_PER_SAT
                      /\ tx.outputs[i].script = HtlcScript(h)
                      /\ Untrimmed(h)
        /\ \A k \in 1..Len(arg.htlcs) :
              Untrimmed(arg.htlcs[k]) =>
                  Cardinality({i \in 1..Len(htlcmap) :
                                  htlcmap[i] = HtlcPtr(arg.htlcs[k].id)}) = 1

\* the permutation moved an htlc output: the second htlc of the list is
\* first among the outputs
C6_Witness ==
    /\ pc = "done"
    /\ Len(arg.htlcs) >= 2
    /\ htlcmap[1] = HtlcPtr(arg.htlcs[2].id)
    /\ Untrimmed(arg.htlcs[1])
    /\ arg.htlcs[1].owner = arg.htlcs[2].owner

(***************************************************************************)
(* C7 - balances below the dust limit get no output.                       *)
(***************************************************************************)
\* C7: the returned transaction has a to_local output exactly when self_pay
\* after the fee is >= dust_limit, and a to_remote output exactly when
\* other_pay after the fee is; with self_pay below dust_limit on input there
\* is no to_local output and the LOCAL slot is empty, and likewise for
\* other_pay, to_remote and the REMOTE slot.
C7_DustOmission ==
    pc = "done" =>
        /\ HasToLocal <=> amount_msat_greater_eq_sat(self_pay, arg.dust_limit)
        /\ HasToRemote <=> amount_msat_greater_eq_sat(other_pay, arg.dust_limit)
        /\ (arg.self_pay < arg.dust_limit * MSAT_PER_SAT
               => ~HasToLocal /\ (arg.want_direct => direct_outputs["LOCAL"] = NULL))
        /\ (arg.other_pay < arg.dust_limit * MSAT_PER_SAT
               => ~HasToRemote /\ (arg.want_direct => direct_outputs["REMOTE"] = NULL))

\* self_pay below the dust limit on input, other_pay exactly at it after the fee
C7_Witness ==
    /\ pc = "done"
    /\ arg.want_direct
    /\ arg.self_pay < arg.dust_limit * MSAT_PER_SAT
    /\ arg.self_pay > 0
    /\ direct_outputs["LOCAL"] = NULL
    /\ other_pay = arg.dust_limit * MSAT_PER_SAT
    /\ other_pay < arg.other_pay
    /\ HasToRemote

(***************************************************************************)
(* C8 - the commitment number in locktime and sequence.                    *)
(***************************************************************************)
Below2to48(number) == number[1] = 0

FitsU32(w) == w[1] = 0 /\ w[2] < Byte

\* (locktime & 0xFFFFFF) | ((sequence & 0xFFFFFF) << 24): the low 24 bits of
\* the locktime, with the low 24 bits of the sequence as bits 24-47
Decoded(locktime, sequence) == <<0, sequence[3], locktime[3]>>

\* C8: for an obscured commitment number N below 2^48 the returned transaction
\* has locktime 0x20000000 + (N mod 2^24) and input sequence
\* 0x80000000 + ((N div 2^24) mod 2^24), both within 32 bits, and decoding
\* them gives N back.
C8_LocktimeSequence ==
    (pc = "done" /\ Below2to48(arg.obscured_commitment_number)) =>
        LET number == arg.obscured_commitment_number
            sequence == tx.inputs[1].sequence
        IN  /\ Len(tx.inputs) = 1
            /\ tx.locktime = <<0, 32, number[3]>>
            /\ sequence = <<0, 128, number[2]>>
            /\ FitsU32(tx.locktime)
            /\ FitsU32(sequence)
            /\ Decoded(tx.locktime, sequence) = number

\* a number whose two halves differ and use the top bit of each half
C8_Witness ==
    /\ pc = "done"
    /\ arg.obscured_commitment_number = <<0, 16777215, 8388608>>
    /\ Decoded(tx.locktime, tx.inputs[1].sequence) = <<0, 16777215, 8388608>>

(***************************************************************************)
(* C9 - the order of the htlc list does not matter.                        *)
(***************************************************************************)
Bijections(k) == {p \in [1..k -> 1..k] : \A i, j \in 1..k : p[i] = p[j] => i = j}

Reorderings(s) == {[i \in 1..Len(s) |-> s[p[i]]] : p \in Bijections(Len(s))}

\* C9: for every reordering of the htlc list, all else equal, commit_tx
\* returns the same transaction: the same outputs in the same order, the same
\* locktime and the same input; whatever the second call finds in the cltvs
\* entries it never assigns.
C9_OrderIndependent ==
    pc = "done" =>
        \A hs \in Reorderings(arg.htlcs), jk \in JunkCltvs :
            LET r == commit_tx([arg EXCEPT !.htlcs = hs, !.junk = jk])
            IN  r.pc = "done" /\ r.tx = tx

\* two htlc outputs of equal amount and script, the later expiry first in the
\* list and last among the outputs
C9_Witness ==
    /\ pc = "done"
    /\ Len(arg.htlcs) = 2
    /\ Untrimmed(arg.htlcs[1])
    /\ arg.htlcs[1].amount = arg.htlcs[2].amount
    /\ HtlcScript(arg.htlcs[1]) = HtlcScript(arg.htlcs[2])
    /\ arg.htlcs[1].expiry > arg.htlcs[2].expiry
    /\ \E i, j \in 1..Len(htlcmap) :
          /\ i < j
          /\ htlcmap[i] = HtlcPtr(arg.htlcs[2].id)
          /\ htlcmap[j] = HtlcPtr(arg.htlcs[1].id)

(***************************************************************************)
(* C10 - the direct outputs.                                               *)
(***************************************************************************)
SlotFor(slot, script, pay) ==
    /\ slot # NULL <=> OutputsWith(script) # {}
    /\ slot # NULL
          => /\ slot \in 1..Len(tx.outputs)
             /\ tx.outputs[slot].script = script
             /\ tx.outputs[slot].amount = pay \div MSAT_PER_SAT
             /\ htlcmap[slot] = NULL

\* C10: when commit_tx returns, every map entry is a reference to an htlc of
\* the list or empty, whether or not direct outputs were asked for; and when
\* they were, the LOCAL slot points to the to_local output where the
\* permutation put it, worth self_pay after the fee in whole satoshi, the
\* REMOTE slot to the to_remote output, and a slot is empty exactly when its
\* output was not emitted.
C10_DirectOutputs ==
    pc = "done" =>
        /\ \A i \in 1..Len(htlcmap) : htlcmap[i] = NULL \/ htlcmap[i] \in HtlcPtrs
        /\ arg.want_direct
              => /\ SlotFor(direct_outputs["LOCAL"], ToLocalScript, self_pay)
                 /\ SlotFor(direct_outputs["REMOTE"], ToRemoteScript, other_pay)

\* both direct outputs exist, to_remote was emitted last and sorts first, and
\* an htlc output lies between them
C10_Witness ==
    /\ pc = "done"
    /\ arg.want_direct
    /\ direct_outputs["REMOTE"] = 1
    /\ direct_outputs["LOCAL"] = 3
    /\ htlcmap[2] \in HtlcPtrs

====
